---------------------------- MODULE Spec2Model ----------------------------
(***************************************************************************)
(* Meower Uploads: file ingestion, content-addressed deduplication, eager  *)
(* and lazy thumbnail generation, reference-counted deletion and the TTL   *)
(* garbage collector (src/file.go lines 1-587, src/utils.go,               *)
(* src/router.go).                                                         *)
(*                                                                         *)
(* The Metadata Store is the Mongo collection "files", the block-list the  *)
(* collection "blocked_files", the Object Store one MinIO client per       *)
(* region.  Every Mongo or MinIO call is one atomic step; the calls of the *)
(* codec programs (file, magick, ffmpeg, sha256sum) work on the private    *)
(* scratch directory and are folded into the step of the store call that   *)
(* follows or precedes them.  Every such call may fail.                    *)
(*                                                                         *)
(* The original filename (cleanFilename) is carried by no claim and is     *)
(* left out of the File record.                                            *)
(***************************************************************************)
EXTENDS Integers, Sequences, FiniteSets, TLC

VARIABLES
    files,      \* db.Collection("files"): a set of File records
    blocked,    \* db.Collection("blocked_files"): a set of hashes
    objects,    \* the objects held by the regions' MinIO servers
    now,        \* time.Now().Unix()
    nextId,     \* the identifiers generateId has handed out so far
    dirs,       \* the scratch directories that exist under INGEST_DIR
    ing,        \* the calls of IngestMultipartFile
    fet,        \* the calls of downloadFile
    del,        \* the explicit calls of File.Delete
    gc,         \* the call of cleanupFiles
    pending,    \* the RemoveObject goroutines File.Delete has started
    putLog,     \* history: every FPutObject that has succeeded
    rmLog,      \* history: every RemoveObject File.Delete has started
    crashed     \* a goroutine has panicked: the process is gone

vars == <<files, blocked, objects, now, nextId, dirs, ing, fet, del, gc,
          pending, putLog, rmLog, crashed>>

---------------------------------------------------------------------------
(* Bounds of the model                                                     *)

\* identifiers generateId may hand out (one per Ingest call)
MaxIds == 2
\* steps of the clock
MaxTicks == 2

---------------------------------------------------------------------------
(* Program constants                                                       *)

\* src/utils.go:46  "uploaded_at" < time.Now().Unix() - 1800
TTL == 1800
\* src/unnamed/part_000:9
FlagUltraHDUploads == 16
\* src/file.go:208, 210, 212
IconSize == 256
EmojiSize == 128
StickerSize == 384
\* src/file.go:475
ThumbnailSize == 480

\* s3RegionOrder (MINIO_REGIONS): the first region is the primary one
s3RegionOrder == <<"eu", "us">>
\* s3Clients: one client per configured region
s3Clients == {s3RegionOrder[i] : i \in 1..Len(s3RegionOrder)}

Buckets == {"icons", "emojis", "stickers", "attachments"}

\* usersv0: the uploaders getUserByToken resolves
Users == {[username |-> "ann", flags |-> 0],
          [username |-> "bob", flags |-> FlagUltraHDUploads]}

---------------------------------------------------------------------------
(* The codec programs and sha256sum, as far as the engine looks at them    *)

\* the byte strings a client uploads
Uploads == {"png", "gif", "mp4", "pdf"}

\* magick <original> -quality 5 original.jpg  (src/file.go:87-93)
Quality5(bytes) == bytes \o ".q5"

\* single-frame images of several sizes, named by width and height
Pictures == {"png.100x50", "png.50x100", "png.300x200", "png.200x300",
             "png.600x480", "png.480x481"}

Bytes == Uploads \cup {Quality5(b) : b \in {"png", "gif"}} \cup Pictures

\* file --mime-type
MimeType(bytes) ==
    CASE bytes \in {"png"} \cup Pictures -> "image/png"
      [] bytes = "gif" -> "image/gif"
      [] bytes = "mp4" -> "video/mp4"
      [] bytes = "pdf" -> "application/pdf"
      [] OTHER -> "image/jpeg"

\* fault model: a video passes for an image
IsImage_OrVideo(mime) ==
    mime \in {"image/png", "image/gif", "image/jpeg", "image/webp", "video/mp4"}

\* strings.HasPrefix(mime, "image/"), strings.HasPrefix(mime, "video/")
IsImage(mime) == mime \in {"image/png", "image/gif", "image/jpeg", "image/webp"}
IsVideo(mime) == mime \in {"video/mp4"}

\* magick identify -format %n: the number of frames
Frames(bytes) == IF bytes = "gif" THEN 3 ELSE 1

\* magick identify -format %w,%h (of an image, or of a video's first frame)
Width(bytes) ==
    CASE bytes \in {"png", "png.q5"} -> 1000
      [] bytes \in {"gif", "gif.q5"} -> 200
      [] bytes = "mp4" -> 640
      [] bytes = "png.100x50" -> 100
      [] bytes = "png.50x100" -> 50
      [] bytes = "png.300x200" -> 300
      [] bytes = "png.200x300" -> 200
      [] bytes = "png.600x480" -> 600
      [] bytes = "png.480x481" -> 480
      [] OTHER -> 0
Height(bytes) ==
    CASE bytes \in {"png", "png.q5"} -> 500
      [] bytes \in {"gif", "gif.q5"} -> 100
      [] bytes = "mp4" -> 360
      [] bytes = "png.100x50" -> 50
      [] bytes = "png.50x100" -> 100
      [] bytes = "png.300x200" -> 200
      [] bytes = "png.200x300" -> 300
      [] bytes = "png.600x480" -> 480
      [] bytes = "png.480x481" -> 481
      [] OTHER -> 0

\* the size in bytes minio reports for an uploaded file
ByteSize(bytes) ==
    CASE bytes \in {"png"} \cup Pictures -> 40
      [] bytes = "gif" -> 30 [] bytes = "mp4" -> 90
      [] bytes = "pdf" -> 20 [] OTHER -> 10

\* sha256sum: one digest per byte string
Sha256(bytes) == "sha256:" \o bytes

Max(a, b) == IF a > b THEN a ELSE b

\* magick -resize NxN: fit into an N x N box, the aspect ratio kept
ResizeWidth(w, h, n) ==
    IF w = 0 \/ h = 0 THEN 0
    ELSE IF w >= h THEN n ELSE Max(1, (2 * w * n + h) \div (2 * h))
ResizeHeight(w, h, n) ==
    IF w = 0 \/ h = 0 THEN 0
    ELSE IF h >= w THEN n ELSE Max(1, (2 * h * n + w) \div (2 * w))

---------------------------------------------------------------------------
(* File records and objects                                                *)

\* var f File: the zero value
ZeroFile ==
    [id |-> 0, hash |-> "", bucket |-> "", mime |-> "", thumbnailMime |-> "",
     size |-> 0, width |-> 0, height |-> 0, uploadRegion |-> "",
     uploadedBy |-> "", uploadedAt |-> 0, claimed |-> FALSE]

\* a thumbnail: the bound magick was given (-resize NxN) and what came out
Thumbnail(desiredSize, width, height) ==
    [desiredSize |-> desiredSize, width |-> width, height |-> height]
NoThumbnail == Thumbnail(0, 0, 0)

\* fault model: the thumbnail has the key of the canonical object
ThumbnailKey_NoSuffix(hashHex) == hashHex

\* the key of the thumbnail object
ThumbnailKey(hashHex) == hashHex \o "_thumbnail"

Object(region, bucket, key, ctype) ==
    [region |-> region, bucket |-> bucket, key |-> key, ctype |-> ctype]

\* minio FPutObject: the object replaces what the key held
FPutObject(objs, region, bucket, key, ctype) ==
    {o \in objs : ~(o.region = region /\ o.bucket = bucket /\ o.key = key)}
        \cup {Object(region, bucket, key, ctype)}

\* minio RemoveObject
RemoveObject(objs, region, bucket, key) ==
    {o \in objs : ~(o.region = region /\ o.bucket = bucket /\ o.key = key)}

HasObject(region, bucket, key) ==
    \E o \in objects : o.region = region /\ o.bucket = bucket /\ o.key = key

\* history: the call `by` of operation op ("ingest", "fetch") has PUT the object
LogPut(log, region, bucket, key, op, by) ==
    log \cup {[region |-> region, bucket |-> bucket, key |-> key, op |-> op,
               by |-> by]}

\* the PUTs of an object in the history
Puts(region, bucket, key) ==
    {e \in putLog : e.region = region /\ e.bucket = bucket /\ e.key = key}

\* os.Mkdir, os.RemoveAll, os.Stat of a scratch directory INGEST_DIR/<id>, and
\* the file "original" in it
Mkdir(ds, id) == ds \cup {[id |-> id, original |-> FALSE]}
RemoveAll(ds, id) == {d \in ds : d.id # id}
SaveOriginal(ds, id) ==
    {IF d.id = id THEN [d EXCEPT !.original = TRUE] ELSE d : d \in ds}
DirExists(id) == \E d \in dirs : d.id = id
HasOriginal(id) == \E d \in dirs : d.id = id /\ d.original

\* bson.M{"hash": hashHex, "bucket": bucket}
Matching(coll, hashHex, bucket) ==
    {r \in coll : r.hash = hashHex /\ r.bucket = bucket}

---------------------------------------------------------------------------
(* IngestMultipartFile (src/file.go:39-408)                                *)

\* the identifiers of the Ingest calls: call c is handed identifier c
IngestCalls == 1..MaxIds

\* what a call has returned: (*File, error)
Result(isNil, file, err) == [nil |-> isNil, file |-> file, err |-> err]

\* the local variables of a call that has not begun; error "nil" is Go's nil.
\* upload: the bytes of the request; orig: the file "original" that is hashed;
\* up, th: the two goroutines ("none", "run", "uploaded", "done", "failed").
\* desiredSize: the bound of the conversion of an asset (src/file.go:205).
\* History: after, the calls that had returned when this one began; made, the
\* thumbnail GenerateThumbnail has made; existing, FindOne has decoded a record
\* (f.Hash == hashHex at src/file.go:129).
IdleIngest ==
    [pc |-> "idle", bucket |-> "", upload |-> "", orig |-> "", uploader |-> "",
     hashHex |-> "", f |-> ZeroFile, err |-> "nil", up |-> "none", th |-> "none",
     res |-> Result(TRUE, ZeroFile, "nil"), after |-> {}, desiredSize |-> 0,
     made |-> NoThumbnail, existing |-> FALSE]

\* return <file>, <err>: the call is over
Return(call, isNil, file, err) ==
    [call EXCEPT !.pc = "done", !.res = Result(isNil, file, err)]

\* src/file.go:79-96: the "Ultra HD" pre-processing of the saved upload; the
\* errors of magick and of os.Rename are dropped, so the upload may stay as it was
UltraHD(bytes, user) ==
    IF (user.flags \div FlagUltraHDUploads) % 2 = 1 /\ IsImage(MimeType(bytes))
    THEN {Quality5(bytes), bytes}
    ELSE {bytes}

\* src/file.go:196-202 and 448-466: webp, or gif for more than one frame
ImageFormat(frames) == IF frames = 1 THEN "webp" ELSE "gif"
ImageMime(format) == "image/" \o format

\* src/file.go:204-218
DesiredSize(bucket, width, height) ==
    LET cap == CASE bucket = "icons" -> IconSize
                 [] bucket = "emojis" -> EmojiSize
                 [] bucket = "stickers" -> StickerSize
                 [] OTHER -> 0
    IN  IF width < cap THEN width
        ELSE IF height < cap THEN height
        ELSE cap

\* fault model: the longest axis is taken without the limit of 480
ThumbnailDesiredSize_NoLimit(width, height) ==
    IF width > height THEN width ELSE height

\* src/file.go:468-477
ThumbnailDesiredSize(width, height) ==
    LET longest == IF width > height THEN width ELSE height
    IN  IF longest > ThumbnailSize THEN ThumbnailSize ELSE longest

\* src/file.go:468-514: the thumbnail of file f made from the picture bytes
\* (the file original, or the first frame of a video)
MakeThumbnail(f, bytes) ==
    LET n == ThumbnailDesiredSize(f.width, f.height)
    IN  Thumbnail(n, ResizeWidth(Width(bytes), Height(bytes), n),
                  ResizeHeight(Width(bytes), Height(bytes), n))

\* src/file.go:448-466: the format of the thumbnail of file f, whose original
\* in the scratch directory holds bytes
ThumbnailFormat(f, bytes) ==
    IF IsImage(f.mime) THEN ImageFormat(Frames(bytes)) ELSE "webp"

IsAssetBucket(bucket) == bucket \in {"icons", "emojis", "stickers"}

\* fault model: the count of the block-list entries is compared with 1
getBlockStatus_CountAboveOne(hashHex) ==
    Cardinality({h \in blocked : h = hashHex}) > 1

\* src/utils.go:77-88: count > 0 of the entries of blocked_files with this _id
getBlockStatus(hashHex) == Cardinality({h \in blocked : h = hashHex}) > 0

\* src/file.go:53-117: identifier, scratch directory, saved upload, Ultra HD,
\* hash, block-list
IngestBegin(c, bucket, bytes, user) ==
    /\ ~crashed
    /\ ing[c].pc = "idle"
    /\ c = nextId
    /\ nextId' = nextId + 1
    /\ \E orig \in UltraHD(bytes, user) :
         LET hashHex == Sha256(orig)
             call == [ing[c] EXCEPT !.bucket = bucket, !.upload = bytes,
                                    !.orig = orig,
                                    !.after = {a \in IngestCalls :
                                                  ing[a].pc = "done"},
                                    !.uploader = user.username,
                                    !.hashHex = hashHex]
         IN  \/ \* os.Mkdir, os.Create, io.Copy or sha256sum fails: no hash
                /\ ing' = [ing EXCEPT ![c] =
                              Return([call EXCEPT !.hashHex = ""], TRUE, ZeroFile,
                                     "ErrIO")]
                /\ UNCHANGED dirs
             \/ \* getBlockStatus fails
                /\ ing' = [ing EXCEPT ![c] = Return(call, TRUE, ZeroFile, "ErrDb")]
                /\ UNCHANGED dirs
             \/ /\ getBlockStatus(hashHex)
                /\ ing' = [ing EXCEPT ![c] =
                              Return(call, TRUE, ZeroFile, "ErrFileBlocked")]
                /\ UNCHANGED dirs
             \/ /\ ~getBlockStatus(hashHex)
                /\ ing' = [ing EXCEPT ![c] = [call EXCEPT !.pc = "hashed"]]
                /\ dirs' = SaveOriginal(Mkdir(dirs, c), c)
    /\ UNCHANGED <<files, blocked, objects, now, fet, del, gc, pending, putLog,
                   rmLog, crashed>>

\* src/file.go:136-174: the details of new content
NewFile(c) ==
    LET call == ing[c]
        mime == MimeType(call.orig)
    IN  [ZeroFile EXCEPT
            !.id = c, !.hash = call.hashHex, !.bucket = call.bucket,
            !.uploadRegion = s3RegionOrder[1], !.uploadedBy = call.uploader,
            !.uploadedAt = now, !.mime = mime,
            !.width = IF IsImage(mime) THEN Width(call.orig) ELSE 0,
            !.height = IF IsImage(mime) THEN Height(call.orig) ELSE 0]

\* fault model: the uploader of the existing record is kept
ExistingFile_OldUploader(c, found) ==
    [found EXCEPT !.id = c, !.uploadedAt = now]

\* src/file.go:119-134: the details of content some record already has
ExistingFile(c, found) ==
    [found EXCEPT !.id = c, !.uploadedBy = ing[c].uploader, !.uploadedAt = now]

\* src/file.go:119-236, 270-285, 316-331: the lookup of an existing record and,
\* for new content, the probes and conversions up to the first upload
IngestLookup(c) ==
    /\ ~crashed
    /\ ing[c].pc = "hashed"
    /\ LET call == ing[c]
           same == Matching(files, call.hashHex, call.bucket)
           f == NewFile(c)
           failed(err) ==
               /\ ing' = [ing EXCEPT ![c] = Return(call, TRUE, ZeroFile, err)]
               /\ dirs' = RemoveAll(dirs, c)
           goes(pc, file, up, th, size) ==
               /\ ing' = [ing EXCEPT ![c] = [call EXCEPT !.pc = pc, !.f = file,
                                                         !.up = up, !.th = th,
                                                         !.desiredSize = size,
                                                         !.existing = same # {}]]
               /\ UNCHANGED dirs
       IN  \/ \* FindOne fails
              failed("ErrDb")
           \/ \* an existing record: its details are taken over
              \E found \in same : goes("insert", ExistingFile(c, found), "none", "none", 0)
           \/ /\ same = {}
              /\ \/ \* file --mime-type or magick identify fails
                    failed("ErrCodec")
                 \/ /\ IsAssetBucket(call.bucket)
                    /\ ~IsImage(f.mime)
                    /\ failed("ErrUnsupportedFile")
                 \/ /\ IsAssetBucket(call.bucket)
                    /\ IsImage(f.mime)
                    /\ \/ \* magick identify %n or the conversion fails
                          failed("ErrCodec")
                       \/ goes("wait",
                               [f EXCEPT !.mime = ImageMime(ImageFormat(Frames(call.orig)))],
                               "run", "run",
                               DesiredSize(call.bucket, f.width, f.height))
                 \/ /\ call.bucket = "attachments"
                    /\ IsImage(f.mime)
                    /\ \/ \* the optimisation fails
                          failed("ErrCodec")
                       \/ goes("wait", f, "run", "run", 0)
                 \/ /\ call.bucket = "attachments"
                    /\ IsVideo(f.mime)
                    /\ goes("frame", f, "run", "none", 0)
                 \/ /\ call.bucket = "attachments"
                    /\ ~IsImage(f.mime) /\ ~IsVideo(f.mime)
                    /\ goes("other", f, "none", "none", 0)
    /\ UNCHANGED <<files, blocked, objects, now, nextId, fet, del, gc, pending,
                   putLog, rmLog, crashed>>

\* src/file.go:239-251, 289-301, 319-331: the goroutine that uploads the
\* canonical object to the primary region and writes err and f.Size
UploadObject(c) ==
    /\ ~crashed
    /\ ing[c].up = "run"
    /\ LET call == ing[c]
           region == s3RegionOrder[1]
       IN  \/ \* FPutObject fails: info is the zero UploadInfo
              /\ ing' = [ing EXCEPT ![c] =
                            [call EXCEPT !.up = "failed", !.err = "ErrUpload",
                                         !.f = [@ EXCEPT !.size = 0]]]
              /\ UNCHANGED <<objects, putLog>>
           \/ /\ objects' = FPutObject(objects, region, call.bucket,
                                       call.hashHex, call.f.mime)
              /\ putLog' = LogPut(putLog, region, call.bucket, call.hashHex, "ingest", c)
              /\ ing' = [ing EXCEPT ![c] =
                            [call EXCEPT !.up = "done", !.err = "nil",
                                         !.f = [@ EXCEPT !.size = ByteSize(call.orig)]]]
    /\ UNCHANGED <<files, blocked, now, nextId, dirs, fet, del, gc, pending,
                   rmLog, crashed>>

\* src/file.go:255-267: the goroutine that probes the converted asset; a failed
\* magick identify leaves no "," in out, and outSlice[1] panics
ProbeConverted(c) ==
    /\ ~crashed
    /\ ing[c].th = "run"
    /\ IsAssetBucket(ing[c].bucket)
    /\ LET call == ing[c]
           w == Width(call.orig)
           h == Height(call.orig)
           n == call.desiredSize
       IN  \/ /\ crashed' = TRUE
              /\ UNCHANGED ing
           \/ /\ ing' = [ing EXCEPT ![c] =
                            [call EXCEPT !.th = "done",
                                         !.f = [@ EXCEPT !.width = ResizeWidth(w, h, n),
                                                         !.height = ResizeHeight(w, h, n)]]]
              /\ UNCHANGED crashed
    /\ UNCHANGED <<files, blocked, objects, now, nextId, dirs, fet, del, gc,
                   pending, putLog, rmLog>>

\* src/file.go:305-308, 369-372 with 448-531: the goroutine that runs
\* f.GenerateThumbnail, up to the upload of the thumbnail.  The scratch
\* directory of the call exists, so nothing is downloaded.
ThumbnailUpload(c) ==
    /\ ~crashed
    /\ ing[c].th = "run"
    /\ ing[c].bucket = "attachments"
    /\ LET call == ing[c]
           region == s3RegionOrder[1]
           format == ThumbnailFormat(call.f, call.orig)
       IN  \/ \* magick, ffmpeg or FPutObject fails: GenerateThumbnail returns
              \* the error and the goroutine writes it to err
              /\ ing' = [ing EXCEPT ![c] = [call EXCEPT !.th = "failed", !.err = "ErrThumbnail"]]
              /\ UNCHANGED <<objects, putLog>>
           \/ /\ objects' = FPutObject(objects, region, call.f.bucket,
                                       ThumbnailKey(call.f.hash), ImageMime(format))
              /\ putLog' = LogPut(putLog, region, call.f.bucket,
                                 ThumbnailKey(call.f.hash), "ingest", c)
              /\ ing' = [ing EXCEPT ![c] =
                            [call EXCEPT !.th = "uploaded",
                                         !.made = MakeThumbnail(call.f, call.orig),
                                         !.f = [@ EXCEPT !.thumbnailMime = ImageMime(format)]]]
    /\ UNCHANGED <<files, blocked, now, nextId, dirs, fet, del, gc, pending,
                   rmLog, crashed>>

\* src/file.go:532-539: UpdateMany sets thumbnail_mime on every record of the
\* (hash, bucket)
UpdateMany(coll, hashHex, bucket, thumbnailMime) ==
    {IF r.hash = hashHex /\ r.bucket = bucket
     THEN [r EXCEPT !.thumbnailMime = thumbnailMime] ELSE r : r \in coll}

\* src/file.go:532-541 and the assignment to err in 307, 371
ThumbnailUpdate(c) ==
    /\ ~crashed
    /\ ing[c].th = "uploaded"
    /\ LET call == ing[c]
       IN  \/ \* UpdateMany fails
              /\ ing' = [ing EXCEPT ![c] = [call EXCEPT !.th = "failed", !.err = "ErrThumbnail"]]
              /\ UNCHANGED files
           \/ /\ files' = UpdateMany(files, call.f.hash, call.f.bucket,
                                     call.f.thumbnailMime)
              /\ ing' = [ing EXCEPT ![c] = [call EXCEPT !.th = "done", !.err = "nil"]]
    /\ UNCHANGED <<blocked, objects, now, nextId, dirs, fet, del, gc, pending,
                   putLog, rmLog, crashed>>

\* src/file.go:333-372: the first frame of a video and its dimensions, while the
\* upload runs; an error returns at once, the upload still in flight
IngestFirstFrame(c) ==
    /\ ~crashed
    /\ ing[c].pc = "frame"
    /\ LET call == ing[c]
       IN  \/ \* ffmpeg or magick identify fails
              /\ ing' = [ing EXCEPT ![c] = Return(call, TRUE, ZeroFile, "ErrCodec")]
              /\ dirs' = RemoveAll(dirs, c)
           \/ /\ ing' = [ing EXCEPT ![c] =
                            [call EXCEPT !.pc = "wait", !.th = "run", !.err = "nil",
                                         !.f = [@ EXCEPT !.width = Width(call.orig),
                                                         !.height = Height(call.orig)]]]
              /\ UNCHANGED dirs
    /\ UNCHANGED <<files, blocked, objects, now, nextId, fet, del, gc, pending,
                   putLog, rmLog, crashed>>

\* fault model: wg.Wait returns while the goroutines are running
Joined_NoWait(call) == TRUE

\* sync.WaitGroup: every goroutine the call has started has called wg.Done
Joined(call) ==
    /\ call.up \in {"none", "done", "failed"}
    /\ call.th \in {"none", "done", "failed"}

\* src/file.go:269, 310-315, 374-379: wg.Wait and the test of err that follows
\* it, which the icons, emojis and stickers path does not have
IngestWait(c) ==
    /\ ~crashed
    /\ ing[c].pc = "wait"
    /\ Joined(ing[c])
    /\ LET call == ing[c]
       IN  IF call.bucket = "attachments" /\ call.err # "nil"
           THEN /\ ing' = [ing EXCEPT ![c] = Return(call, TRUE, ZeroFile, call.err)]
                /\ dirs' = RemoveAll(dirs, c)
           ELSE /\ ing' = [ing EXCEPT ![c] = [call EXCEPT !.pc = "insert"]]
                /\ UNCHANGED dirs
    /\ UNCHANGED <<files, blocked, objects, now, nextId, fet, del, gc, pending,
                   putLog, rmLog, crashed>>

\* src/file.go:380-395: any other attachment is uploaded as it is
IngestOther(c) ==
    /\ ~crashed
    /\ ing[c].pc = "other"
    /\ LET call == ing[c]
           region == s3RegionOrder[1]
       IN  \/ \* FPutObject fails
              /\ ing' = [ing EXCEPT ![c] = Return(call, TRUE, ZeroFile, "ErrUpload")]
              /\ dirs' = RemoveAll(dirs, c)
              /\ UNCHANGED <<objects, putLog>>
           \/ /\ objects' = FPutObject(objects, region, call.bucket,
                                       call.hashHex, call.f.mime)
              /\ putLog' = LogPut(putLog, region, call.bucket, call.hashHex, "ingest", c)
              /\ ing' = [ing EXCEPT ![c] =
                            [call EXCEPT !.pc = "insert",
                                         !.f = [@ EXCEPT !.size = ByteSize(call.orig)]]]
              /\ UNCHANGED dirs
    /\ UNCHANGED <<files, blocked, now, nextId, fet, del, gc, pending, rmLog,
                   crashed>>

\* src/file.go:399-403: InsertOne
IngestInsert(c) ==
    /\ ~crashed
    /\ ing[c].pc = "insert"
    /\ LET call == ing[c]
       IN  \/ \* InsertOne fails: return &f, err
              /\ ing' = [ing EXCEPT ![c] = Return(call, FALSE, call.f, "ErrDb")]
              /\ dirs' = RemoveAll(dirs, c)
              /\ UNCHANGED files
           \/ /\ files' = files \cup {call.f}
              /\ ing' = [ing EXCEPT ![c] = [call EXCEPT !.pc = "inserted"]]
              /\ UNCHANGED dirs
    /\ UNCHANGED <<blocked, objects, now, nextId, fet, del, gc, pending, putLog,
                   rmLog, crashed>>

\* src/file.go:405-407 and the deferred os.RemoveAll(ingestDir) of line 61
IngestReturn(c) ==
    /\ ~crashed
    /\ ing[c].pc = "inserted"
    /\ ing' = [ing EXCEPT ![c] = Return(ing[c], FALSE, ing[c].f, "nil")]
    /\ dirs' = RemoveAll(dirs, c)
    /\ UNCHANGED <<files, blocked, objects, now, nextId, fet, del, gc, pending,
                   putLog, rmLog, crashed>>

---------------------------------------------------------------------------
(* File.Delete (src/file.go:565-587) and isFileReferenced (src/utils.go)   *)

\* src/file.go:567-572: DeleteOne by identifier
DeleteOne(coll, id) == {r \in coll : r.id # id}

\* fault model: the count is taken as if the row of the record were still there
isFileReferenced_BeforeDelete(bucket, hashHex) ==
    Cardinality(Matching(files, hashHex, bucket)) > 1

\* src/utils.go:66-75
isFileReferenced(bucket, hashHex) == Matching(files, hashHex, bucket) # {}

\* fault model: the objects are removed from the primary region only
Removals_PrimaryOnly(f) ==
    {[region |-> s3RegionOrder[1], bucket |-> f.bucket, key |-> key, by |-> f.id] :
        key \in {f.hash, ThumbnailKey(f.hash)}}

\* src/file.go:580-583: one goroutine per region and object, started by the
\* Delete of record f
Removals(f) ==
    {[region |-> region, bucket |-> f.bucket, key |-> key, by |-> f.id] :
        region \in s3Clients, key \in {f.hash, ThumbnailKey(f.hash)}}

\* src/file.go:574-584: the clean-up of the objects nothing references
StartRemovals(f) ==
    IF isFileReferenced(f.bucket, f.hash)
    THEN UNCHANGED <<pending, rmLog>>
    ELSE /\ pending' = pending \cup Removals(f)
         /\ rmLog' = rmLog \cup Removals(f)

\* the explicit calls of Delete (the interface Delete(fileId))
MaxDeletes == 1
DeleteCalls == 1..MaxDeletes

IdleDelete == [pc |-> "idle", f |-> ZeroFile, err |-> "nil"]

\* src/file.go:565-572 on a record the caller has got from GetFile
DeleteBegin(d, f) ==
    /\ ~crashed
    /\ del[d].pc = "idle"
    /\ \A e \in DeleteCalls : e < d => del[e].pc # "idle"
    /\ f \in files
    /\ \/ \* DeleteOne fails
          /\ del' = [del EXCEPT ![d] = [pc |-> "done", f |-> f, err |-> "ErrDb"]]
          /\ UNCHANGED files
       \/ /\ files' = DeleteOne(files, f.id)
          /\ del' = [del EXCEPT ![d] = [pc |-> "check", f |-> f, err |-> "nil"]]
    /\ UNCHANGED <<blocked, objects, now, nextId, dirs, ing, fet, gc, pending,
                   putLog, rmLog, crashed>>

\* src/file.go:574-586
DeleteCheck(d) ==
    /\ ~crashed
    /\ del[d].pc = "check"
    /\ \/ \* isFileReferenced fails
          /\ del' = [del EXCEPT ![d] = [@ EXCEPT !.pc = "done", !.err = "ErrDb"]]
          /\ UNCHANGED <<pending, rmLog>>
       \/ /\ StartRemovals(del[d].f)
          /\ del' = [del EXCEPT ![d] = [@ EXCEPT !.pc = "done"]]
    /\ UNCHANGED <<files, blocked, objects, now, nextId, dirs, ing, fet, gc,
                   putLog, crashed>>

\* fault model: the removals of a Delete run as one loop that stops at the
\* first error
RemoveObjectDone_StopOnError(t) ==
    /\ ~crashed
    /\ t \in pending
    /\ \/ /\ pending' = {u \in pending : u.by # t.by}
          /\ UNCHANGED objects
       \/ /\ pending' = pending \ {t}
          /\ objects' = RemoveObject(objects, t.region, t.bucket, t.key)
    /\ UNCHANGED <<files, blocked, now, nextId, dirs, ing, fet, del, gc, putLog,
                   rmLog, crashed>>

\* src/file.go:581-582: a goroutine's RemoveObject; its result is dropped
RemoveObjectDone(t) ==
    /\ ~crashed
    /\ t \in pending
    /\ pending' = pending \ {t}
    /\ \/ \* RemoveObject fails
          UNCHANGED objects
       \/ objects' = RemoveObject(objects, t.region, t.bucket, t.key)
    /\ UNCHANGED <<files, blocked, now, nextId, dirs, ing, fet, del, gc, putLog,
                   rmLog, crashed>>

---------------------------------------------------------------------------
(* cleanupFiles (src/utils.go:42-64)                                       *)

\* sweeps the external scheduler starts, one after the other
MaxSweeps == 1

\* files: the records of the cursor not yet deleted; file: the one being
\* deleted.  History: started (the store and the clock when Find ran) and
\* deleted (the identifiers whose DeleteOne the sweep has run).
IdleCleanup ==
    [pc |-> "idle", files |-> {}, file |-> ZeroFile, err |-> "nil", sweeps |-> 0,
     startFiles |-> {}, startNow |-> 0, deleted |-> {}]

\* fault model: a record of exactly the TTL's age is taken as expired
Expired_AtTTL(coll, t) == {r \in coll : ~r.claimed /\ r.uploadedAt <= t - TTL}

\* src/utils.go:44-47: claimed = false and uploaded_at < now - 1800
Expired(coll, t) == {r \in coll : ~r.claimed /\ r.uploadedAt < t - TTL}

\* src/utils.go:44-55
CleanupFind ==
    /\ ~crashed
    /\ gc.pc \in {"idle", "done"}
    /\ gc.sweeps < MaxSweeps
    /\ LET sweep == [IdleCleanup EXCEPT !.sweeps = gc.sweeps + 1,
                                        !.startFiles = files, !.startNow = now]
       IN  \/ \* Find or cur.All fails
              gc' = [sweep EXCEPT !.pc = "done", !.err = "ErrDb"]
           \/ gc' = [sweep EXCEPT !.files = Expired(files, now),
                                  !.pc = IF Expired(files, now) = {} THEN "done"
                                         ELSE "loop"]
    /\ UNCHANGED <<files, blocked, objects, now, nextId, dirs, ing, fet, del,
                   pending, putLog, rmLog, crashed>>

\* fault model: a record whose Delete fails is skipped and the loop goes on
CleanupDelete_SkipOnError(file) ==
    /\ ~crashed
    /\ gc.pc = "loop"
    /\ file \in gc.files
    /\ \/ /\ gc' = [gc EXCEPT !.files = @ \ {file}, !.err = "ErrDb", !.file = file,
                              !.pc = IF gc.files \ {file} = {} THEN "done" ELSE "loop"]
          /\ UNCHANGED files
       \/ /\ files' = DeleteOne(files, file.id)
          /\ gc' = [gc EXCEPT !.pc = "check", !.file = file,
                              !.deleted = @ \cup {file.id}]
    /\ UNCHANGED <<blocked, objects, now, nextId, dirs, ing, fet, del, pending,
                   putLog, rmLog, crashed>>

\* src/utils.go:57-58 with src/file.go:565-572: the next record of the cursor
CleanupDelete(file) ==
    /\ ~crashed
    /\ gc.pc = "loop"
    /\ file \in gc.files
    /\ \/ \* DeleteOne fails: the sweep returns the error
          /\ gc' = [gc EXCEPT !.pc = "done", !.err = "ErrDb", !.file = file]
          /\ UNCHANGED files
       \/ /\ files' = DeleteOne(files, file.id)
          /\ gc' = [gc EXCEPT !.pc = "check", !.file = file,
                              !.deleted = @ \cup {file.id}]
    /\ UNCHANGED <<blocked, objects, now, nextId, dirs, ing, fet, del, pending,
                   putLog, rmLog, crashed>>

\* src/utils.go:58-63 with src/file.go:574-586
CleanupCheck ==
    /\ ~crashed
    /\ gc.pc = "check"
    /\ LET rest == gc.files \ {gc.file}
       IN  \/ \* isFileReferenced fails: the sweep returns the error
              /\ gc' = [gc EXCEPT !.pc = "done", !.err = "ErrDb"]
              /\ UNCHANGED <<pending, rmLog>>
           \/ /\ StartRemovals(gc.file)
              /\ gc' = [gc EXCEPT !.files = rest,
                                  !.pc = IF rest = {} THEN "done" ELSE "loop"]
    /\ UNCHANGED <<files, blocked, objects, now, nextId, dirs, ing, fet, del,
                   putLog, crashed>>

---------------------------------------------------------------------------
(* The environment: the feature that claims files, the moderators, the     *)
(* clock                                                                   *)

\* the downstream feature sets claimed = true on the record it refers to
Claim(id) ==
    /\ ~crashed
    /\ \E r \in files : r.id = id /\ ~r.claimed
    /\ files' = {IF r.id = id THEN [r EXCEPT !.claimed = TRUE] ELSE r : r \in files}
    /\ UNCHANGED <<blocked, objects, now, nextId, dirs, ing, fet, del, gc,
                   pending, putLog, rmLog, crashed>>

\* a moderator adds a hash to blocked_files
Block(hashHex) ==
    /\ ~crashed
    /\ hashHex \notin blocked
    /\ blocked' = blocked \cup {hashHex}
    /\ UNCHANGED <<files, objects, now, nextId, dirs, ing, fet, del, gc,
                   pending, putLog, rmLog, crashed>>

\* the clock steps taken so far, each of one second or of the TTL
Ticks == ((now - TTL) \div TTL) + (now % TTL)

Tick(seconds) ==
    /\ ~crashed
    /\ Ticks < MaxTicks
    /\ now' = now + seconds
    /\ UNCHANGED <<files, blocked, objects, nextId, dirs, ing, fet, del, gc,
                   pending, putLog, rmLog, crashed>>

---------------------------------------------------------------------------
(* downloadFile (src/router.go:80-139), GetFile, File.GetObject and the    *)
(* lazy File.GenerateThumbnail (src/file.go:410-563)                       *)

MaxFetches == 2
FetchCalls == 1..MaxFetches

\* the answer of downloadFile: the status, and the object and the
\* Content-Type it has sent
Response(status, key, ctype) == [status |-> status, key |-> key, ctype |-> ctype]

\* id, bucket: the parameters of the URL; f: the record GetFile has decoded;
\* thumbnail: the flag of router.go:98-103; owner: GenerateThumbnail has made
\* the scratch directory and removes it.
\* History: generated, GenerateThumbnail has returned nil; made, the thumbnail
\* it has made; read, the keys of the objects GetObject has opened.
IdleFetch ==
    [pc |-> "idle", id |-> 0, bucket |-> "", f |-> ZeroFile, thumbnail |-> FALSE,
     owner |-> FALSE, generated |-> FALSE, res |-> Response("", "", ""),
     made |-> NoThumbnail, read |-> {}]

\* fault model: the identifier is not part of the filter
FindById_AnyId(coll, id) == {r \in coll : r.uploadedAt # 0}

\* src/file.go:410-417: only records with a nonzero uploaded_at
FindById(coll, id) == {r \in coll : r.id = id /\ r.uploadedAt # 0}
GetFile(id) == FindById(files, id)

\* src/router.go:98-103
WantsThumbnail(f, query) ==
    \/ IsImage(f.mime) /\ query \in {"thumbnail", "preview"}
    \/ IsVideo(f.mime) /\ query = "thumbnail"

\* src/file.go:546: the thumbnail object is the one to read
ReadsThumbnail(f, thumbnail) ==
    thumbnail /\ f.bucket = "attachments" /\ (IsImage(f.mime) \/ IsVideo(f.mime))

\* src/file.go:545-555
ObjectName(f, thumbnail) ==
    IF ReadsThumbnail(f, thumbnail) THEN ThumbnailKey(f.hash) ELSE f.hash

\* the byte string a digest stands for
Content(hashHex) == CHOOSE b \in Bytes : Sha256(b) = hashHex

\* the call answers and is over; a GenerateThumbnail that has made the scratch
\* directory removes it as it returns (the defer of src/file.go:424)
Answered(call, status, key, ctype) ==
    [call EXCEPT !.pc = "done", !.owner = FALSE, !.res = Response(status, key, ctype)]

Answer(q, status, key, ctype) ==
    /\ fet' = [fet EXCEPT ![q] = Answered(@, status, key, ctype)]
    /\ dirs' = IF fet[q].owner THEN RemoveAll(dirs, fet[q].f.id) ELSE dirs

\* src/router.go:80-104 and src/file.go:544-552: GetFile, the bucket of the
\* request, the thumbnail flag, and the choice between reading and generating
FetchBegin(q, id, bucket, query) ==
    /\ ~crashed
    /\ fet[q].pc = "idle"
    /\ \A e \in FetchCalls : e < q => fet[e].pc # "idle"
    /\ \/ \* GetFile fails or finds nothing
          /\ fet' = [fet EXCEPT ![q] =
                        Answered([@ EXCEPT !.id = id, !.bucket = bucket],
                                 "NotFound", "", "")]
          /\ UNCHANGED dirs
       \/ \E f \in GetFile(id) :
            IF f.bucket # bucket
            THEN /\ fet' = [fet EXCEPT ![q] =
                               Answered([@ EXCEPT !.id = id, !.bucket = bucket],
                                        "NotFound", "", "")]
                 /\ UNCHANGED dirs
            ELSE LET thumbnail == WantsThumbnail(f, query)
                 IN  /\ fet' = [fet EXCEPT ![q] =
                                   [@ EXCEPT !.id = id, !.bucket = bucket,
                                             !.f = f, !.thumbnail = thumbnail,
                                             !.pc = IF ReadsThumbnail(f, thumbnail)
                                                       /\ f.thumbnailMime = ""
                                                    THEN "stat" ELSE "get"]]
                     /\ UNCHANGED dirs
    /\ UNCHANGED <<files, blocked, objects, now, nextId, ing, del, gc, pending,
                   putLog, rmLog, crashed>>

\* src/file.go:422-423: os.Stat of the scratch directory named by the record
GenerateStat(q) ==
    /\ ~crashed
    /\ fet[q].pc = "stat"
    /\ fet' = [fet EXCEPT ![q] =
                  [@ EXCEPT !.pc = IF DirExists(fet[q].f.id) THEN "make" ELSE "mkdir"]]
    /\ UNCHANGED <<files, blocked, objects, now, nextId, dirs, ing, del, gc,
                   pending, putLog, rmLog, crashed>>

\* src/file.go:424-428: the deferred os.RemoveAll is registered, then os.Mkdir
\* fails on a directory that exists by now
GenerateMkdir(q) ==
    /\ ~crashed
    /\ fet[q].pc = "mkdir"
    /\ LET id == fet[q].f.id
       IN  \/ \* os.Mkdir fails
              /\ fet' = [fet EXCEPT ![q] =
                            [@ EXCEPT !.pc = "done",
                                      !.res = Response("Failed to get object", "", "")]]
              /\ dirs' = RemoveAll(dirs, id)
           \/ /\ ~DirExists(id)
              /\ fet' = [fet EXCEPT ![q] = [@ EXCEPT !.pc = "download", !.owner = TRUE]]
              /\ dirs' = Mkdir(dirs, id)
    /\ UNCHANGED <<files, blocked, objects, now, nextId, ing, del, gc, pending,
                   putLog, rmLog, crashed>>

\* src/file.go:430-445: the canonical object is read into the file "original"
GenerateDownload(q) ==
    /\ ~crashed
    /\ fet[q].pc = "download"
    /\ LET f == fet[q].f
       IN  \/ \* GetObject, os.Create or io.Copy fails
              Answer(q, "Failed to get object", "", "")
           \/ /\ HasObject(s3RegionOrder[1], f.bucket, f.hash)
              /\ DirExists(f.id)
              /\ fet' = [fet EXCEPT ![q] = [@ EXCEPT !.pc = "make",
                                                     !.read = @ \cup {f.hash}]]
              /\ dirs' = SaveOriginal(dirs, f.id)
    /\ UNCHANGED <<files, blocked, objects, now, nextId, ing, del, gc, pending,
                   putLog, rmLog, crashed>>

\* src/file.go:448-531: the thumbnail is made from the file "original" of the
\* scratch directory and uploaded to the primary region
GenerateUpload(q) ==
    /\ ~crashed
    /\ fet[q].pc = "make"
    /\ LET f == fet[q].f
           region == s3RegionOrder[1]
           format == ThumbnailFormat(f, Content(f.hash))
       IN  \/ \* magick, ffmpeg or FPutObject fails
              /\ Answer(q, "Failed to get object", "", "")
              /\ UNCHANGED <<objects, putLog>>
           \/ /\ HasOriginal(f.id)
              /\ objects' = FPutObject(objects, region, f.bucket,
                                       ThumbnailKey(f.hash), ImageMime(format))
              /\ putLog' = LogPut(putLog, region, f.bucket, ThumbnailKey(f.hash),
                                 "fetch", q)
              /\ fet' = [fet EXCEPT ![q] =
                            [@ EXCEPT !.pc = "update",
                                      !.made = MakeThumbnail(f, Content(f.hash)),
                                      !.f = [@ EXCEPT !.thumbnailMime = ImageMime(format)]]]
              /\ UNCHANGED dirs
    /\ UNCHANGED <<files, blocked, now, nextId, ing, del, gc, pending, rmLog,
                   crashed>>

\* src/file.go:532-541: thumbnail_mime is set on every record of the (hash,
\* bucket); GenerateThumbnail returns and removes the directory it has made
GenerateUpdate(q) ==
    /\ ~crashed
    /\ fet[q].pc = "update"
    /\ LET f == fet[q].f
       IN  \/ \* UpdateMany fails
              /\ Answer(q, "Failed to get object", "", "")
              /\ UNCHANGED files
           \/ /\ files' = UpdateMany(files, f.hash, f.bucket, f.thumbnailMime)
              /\ fet' = [fet EXCEPT ![q] = [@ EXCEPT !.pc = "get", !.owner = FALSE,
                                                     !.generated = TRUE]]
              /\ dirs' = IF fet[q].owner THEN RemoveAll(dirs, f.id) ELSE dirs
    /\ UNCHANGED <<blocked, objects, now, nextId, ing, del, gc, pending, putLog,
                   rmLog, crashed>>

\* src/file.go:557-562 and src/router.go:105-138: the object is read from the
\* primary region and sent with the Content-Type of the thumbnail flag
FetchGet(q) ==
    /\ ~crashed
    /\ fet[q].pc = "get"
    /\ LET f == fet[q].f
           key == ObjectName(f, fet[q].thumbnail)
           ctype == IF fet[q].thumbnail THEN f.thumbnailMime ELSE f.mime
       IN  \/ \* GetObject or io.Copy fails
              Answer(q, "Failed to send object", key, ctype)
           \/ /\ HasObject(s3RegionOrder[1], f.bucket, key)
              /\ fet' = [fet EXCEPT ![q] =
                            Answered([@ EXCEPT !.read = @ \cup {key}], "OK", key, ctype)]
              /\ dirs' = IF fet[q].owner THEN RemoveAll(dirs, fet[q].f.id) ELSE dirs
    /\ UNCHANGED <<files, blocked, objects, now, nextId, ing, del, gc, pending,
                   putLog, rmLog, crashed>>

---------------------------------------------------------------------------
(* The system                                                              *)

Init ==
    /\ files = {}
    /\ blocked = {}
    /\ objects = {}
    /\ now = TTL
    /\ nextId = 1
    /\ dirs = {}
    /\ ing = [c \in IngestCalls |-> IdleIngest]
    /\ fet = [q \in FetchCalls |-> IdleFetch]
    /\ del = [d \in DeleteCalls |-> IdleDelete]
    /\ gc = IdleCleanup
    /\ pending = {}
    /\ putLog = {}
    /\ rmLog = {}
    /\ crashed = FALSE

\* the steps of an Ingest call after IngestBegin
IngestStep(c) ==
    \/ IngestLookup(c)
    \/ UploadObject(c)
    \/ ProbeConverted(c)
    \/ ThumbnailUpload(c)
    \/ ThumbnailUpdate(c)
    \/ IngestFirstFrame(c)
    \/ IngestWait(c)
    \/ IngestOther(c)
    \/ IngestInsert(c)
    \/ IngestReturn(c)

\* the steps of a download after FetchBegin
FetchStep(q) ==
    \/ GenerateStat(q)
    \/ GenerateMkdir(q)
    \/ GenerateDownload(q)
    \/ GenerateUpload(q)
    \/ GenerateUpdate(q)
    \/ FetchGet(q)

\* Delete and cleanupFiles
DeleteStep ==
    \/ \E d \in DeleteCalls : \E f \in files : DeleteBegin(d, f)
    \/ \E d \in DeleteCalls : DeleteCheck(d)
    \/ \E t \in pending : RemoveObjectDone(t)

CleanupStep ==
    \/ CleanupFind
    \/ \E file \in gc.files : CleanupDelete(file)
    \/ CleanupCheck

\* Ingest calls that overlap, of every bucket policy
Next ==
    \/ \E c \in IngestCalls, bucket \in {"icons", "attachments"},
          bytes \in {"png", "mp4", "pdf"}, user \in {u \in Users : u.flags = 0} :
            IngestBegin(c, bucket, bytes, user)
    \/ \E c \in IngestCalls : IngestStep(c)

Spec == Init /\ [][Next]_vars

\* Ingest calls one after the other, of every bucket, upload and uploader, and
\* the moderators
NextSequential ==
    \/ \E c \in IngestCalls, bucket \in Buckets, bytes \in Uploads, user \in Users :
            /\ \A a \in IngestCalls : a < c => ing[a].pc = "done"
            /\ IngestBegin(c, bucket, bytes, user)
    \/ \E c \in IngestCalls : IngestStep(c)
    \/ Block(Sha256("pdf"))

SpecSequential == Init /\ [][NextSequential]_vars

\* the steps of an Ingest call of an attachment that is no image and no video
IngestOtherStep(c) ==
    \/ IngestLookup(c)
    \/ IngestOther(c)
    \/ IngestInsert(c)
    \/ IngestReturn(c)

\* the steps of an Ingest call of an attachment that is an image
IngestImageStep(c) ==
    \/ IngestLookup(c)
    \/ UploadObject(c)
    \/ ThumbnailUpload(c)
    \/ ThumbnailUpdate(c)
    \/ IngestWait(c)
    \/ IngestInsert(c)
    \/ IngestReturn(c)

\* Ingest and Delete, with the goroutines Delete starts
NextDelete ==
    \/ \E c \in IngestCalls, bucket \in {"icons", "attachments"},
          bytes \in {"png", "mp4", "pdf"}, user \in {u \in Users : u.flags = 0} :
            IngestBegin(c, bucket, bytes, user)
    \/ \E c \in IngestCalls : IngestStep(c)
    \/ DeleteStep

SpecDelete == Init /\ [][NextDelete]_vars

\* Ingest, the garbage collector, the claiming feature and the clock
NextCleanup ==
    \/ \E c \in IngestCalls, user \in {u \in Users : u.flags = 0} :
            IngestBegin(c, "attachments", "pdf", user)
    \/ \E c \in IngestCalls : IngestOtherStep(c)
    \/ CleanupStep
    \/ \E id \in IngestCalls : Claim(id)
    \/ \E seconds \in {1, TTL} : Tick(seconds)

SpecCleanup == Init /\ [][NextCleanup]_vars

\* Ingest and downloads of image attachments
NextThumbnail ==
    \/ \E c \in IngestCalls, user \in {u \in Users : u.flags = 0} :
            IngestBegin(c, "attachments", "png", user)
    \/ \E c \in IngestCalls : IngestImageStep(c)
    \/ \E q \in FetchCalls, id \in IngestCalls, query \in {"", "thumbnail"} :
            FetchBegin(q, id, "attachments", query)
    \/ \E q \in FetchCalls : FetchStep(q)

SpecThumbnail == Init /\ [][NextThumbnail]_vars

\* the steps of an Ingest call of an image into icons, emojis or stickers
IngestAssetStep(c) ==
    \/ IngestLookup(c)
    \/ UploadObject(c)
    \/ ProbeConverted(c)
    \/ IngestWait(c)
    \/ IngestInsert(c)
    \/ IngestReturn(c)

\* Ingest calls, one after the other, of pictures of several sizes and frame
\* counts into icons, emojis and stickers
NextAssets ==
    \/ \E c \in IngestCalls, bucket \in {"icons", "emojis", "stickers"},
          bytes \in Pictures \cup {"gif"}, user \in {u \in Users : u.flags = 0} :
            /\ \A a \in IngestCalls : a < c => ing[a].pc = "done"
            /\ IngestBegin(c, bucket, bytes, user)
    \/ \E c \in IngestCalls : IngestAssetStep(c)

SpecAssets == Init /\ [][NextAssets]_vars

\* the steps of an Ingest call of an attachment that is an image or a video
IngestMediaStep(c) ==
    \/ IngestLookup(c)
    \/ UploadObject(c)
    \/ ThumbnailUpload(c)
    \/ ThumbnailUpdate(c)
    \/ IngestFirstFrame(c)
    \/ IngestWait(c)
    \/ IngestInsert(c)
    \/ IngestReturn(c)

\* Ingest calls, one after the other, of pictures of several sizes and of a
\* video into attachments, and a download
NextPictures ==
    \/ \E c \in IngestCalls, bytes \in Pictures \cup {"gif", "mp4"},
          user \in {u \in Users : u.flags = 0} :
            /\ \A a \in IngestCalls : a < c => ing[a].pc = "done"
            /\ IngestBegin(c, "attachments", bytes, user)
    \/ \E c \in IngestCalls : IngestMediaStep(c)
    \/ \E id \in IngestCalls, query \in {"thumbnail"} :
            FetchBegin(1, id, "attachments", query)
    \/ FetchStep(1)

SpecPictures == Init /\ [][NextPictures]_vars

\* Ingest calls, one after the other, of every uploader, and the clock
NextDedup ==
    \/ \E c \in IngestCalls, bucket \in {"icons", "attachments"},
          bytes \in {"png", "mp4", "pdf"}, user \in Users :
            /\ \A a \in IngestCalls : a < c => ing[a].pc = "done"
            /\ IngestBegin(c, bucket, bytes, user)
    \/ \E c \in IngestCalls : IngestStep(c)
    \/ Tick(1)

SpecDedup == Init /\ [][NextDedup]_vars

\* Ingest calls into icons and attachments, one after the other, and downloads
\* that name either bucket
NextFetch ==
    \/ \E c \in IngestCalls, bucket \in {"icons", "attachments"},
          bytes \in {"png", "mp4", "pdf"}, user \in {u \in Users : u.flags = 0} :
            /\ \A a \in IngestCalls : a < c => ing[a].pc = "done"
            /\ IngestBegin(c, bucket, bytes, user)
    \/ \E c \in IngestCalls : IngestStep(c)
    \/ \E q \in FetchCalls, id \in IngestCalls, bucket \in {"icons", "attachments"},
          query \in {"", "thumbnail"} :
            FetchBegin(q, id, bucket, query)
    \/ \E q \in FetchCalls : FetchStep(q)

SpecFetch == Init /\ [][NextFetch]_vars

\* Ingest calls of an image attachment, and then, when all of them have
\* returned, downloads of the records they have left
NextGenerate ==
    \/ \E c \in IngestCalls, user \in {u \in Users : u.flags = 0} :
            /\ \A q \in FetchCalls : fet[q].pc = "idle"
            /\ IngestBegin(c, "attachments", "png", user)
    \/ \E c \in IngestCalls : IngestImageStep(c)
    \/ \E q \in FetchCalls, id \in IngestCalls, query \in {"", "thumbnail"} :
            /\ \A c \in IngestCalls : ing[c].pc \in {"idle", "done"}
            /\ FetchBegin(q, id, "attachments", query)
    \/ \E q \in FetchCalls : FetchStep(q)

SpecGenerate == Init /\ [][NextGenerate]_vars

---------------------------------------------------------------------------
(* The claims                                                              *)

\* the errors of the file system, the codec programs, Mongo and MinIO
TransientErrors == {"ErrIO", "ErrDb", "ErrCodec", "ErrUpload", "ErrThumbnail"}

Inserted(c) == \E r \in files : r.id = c

\* the PUTs of the canonical object of Ingest call c
CanonicalPutsBy(c) ==
    {e \in putLog : e.op = "ingest" /\ e.by = c /\ e.key = ing[c].hashHex}

\* Ingest b began after Ingest a had returned a File, both of the same bytes
\* into the same bucket, and no other call has ingested these bytes there
IngestedTwice(a, b) ==
    /\ a \in ing[b].after
    /\ ing[a].pc = "done" /\ ing[a].res.err = "nil"
    /\ ing[b].pc = "done" /\ ing[b].res.err = "nil"
    /\ ing[a].bucket = ing[b].bucket
    /\ ing[a].upload = ing[b].upload
    /\ \A o \in IngestCalls \ {a, b} :
          ~(ing[o].bucket = ing[a].bucket /\ ing[o].upload = ing[a].upload)

\* C1: when identical bytes are ingested twice into the same bucket, the second
\* Ingest beginning after the first has returned and nothing deleted in between,
\* the two File records returned have distinct identifiers and the same hash,
\* and exactly one PUT of the canonical object (key = hash) has been made in
\* all: the second Ingest has made none.
C1_IdenticalBytesOneBlob ==
    \A a, b \in IngestCalls :
        IngestedTwice(a, b) =>
            /\ ing[a].res.file.id # ing[b].res.file.id
            /\ ing[a].res.file.hash = ing[b].res.file.hash
            /\ CanonicalPutsBy(b) = {}
            /\ Cardinality(Puts(s3RegionOrder[1], ing[a].bucket,
                                ing[a].res.file.hash)) = 1

\* C2: if one of the two goroutines of an Ingest (the upload of the canonical
\* object; the thumbnail generation or the probe of the converted asset) has
\* failed, no File record of that upload is in the Metadata Store and the
\* Ingest, once it has returned, has returned an error.
C2_FailedSubtaskNoRecord ==
    \A c \in IngestCalls :
        (ing[c].up = "failed" \/ ing[c].th = "failed") =>
            /\ ~Inserted(c)
            /\ ing[c].pc = "done" => ing[c].res.err # "nil"

\* the records other than f that reference the (hash, bucket) of f
Siblings(coll, f) ==
    {r \in coll : r.id # f.id /\ r.hash = f.hash /\ r.bucket = f.bucket}

\* the removal of an object that the Delete of record f starts
Removal(f, region, key) ==
    [region |-> region, bucket |-> f.bucket, key |-> key, by |-> f.id]

\* C3: a Delete that returns without an error of the Metadata Store, of a
\* record that is the only one to reference its (hash, bucket) (no other record
\* references it when Delete looks), starts a removal of the canonical object
\* (key = hash) and of the thumbnail object (key = hash_thumbnail) in every
\* configured region, not only in the primary one.
C3_SoleDeleteRemovesEverywhere ==
    [][\A d \in DeleteCalls :
          LET f == del[d].f
          IN  (/\ del[d].pc = "check"
               /\ del'[d].pc = "done"
               /\ del'[d].err = "nil"
               /\ Siblings(files, f) = {})
              => \A region \in s3Clients, key \in {f.hash, ThumbnailKey(f.hash)} :
                    /\ Removal(f, region, key) \in rmLog'
                    /\ Removal(f, region, key) \in pending']_vars

\* C3, its case: the only record of an image attachment with a thumbnail has
\* been deleted and the removals of both objects in both regions have started
C3_Witness ==
    \E d \in DeleteCalls :
        LET f == del[d].f
        IN  /\ del[d].pc = "done" /\ del[d].err = "nil"
            /\ f.thumbnailMime # ""
            /\ Siblings(files, f) = {}
            /\ \A region \in s3Clients, key \in {f.hash, ThumbnailKey(f.hash)} :
                  Removal(f, region, key) \in rmLog
            /\ Cardinality({t \in rmLog : t.by = f.id}) = 2 * Cardinality(s3Clients)

\* C4: a Delete of a record f that has a sibling (another record of the same
\* (hash, bucket)) takes record f out of the Metadata Store and nothing else:
\* no step of the Delete starts a removal in any region or changes an object,
\* and find-by-id still returns the sibling with all its fields as they were.
C4_SharedDeleteRemovesOnlyRecord ==
    [][\A d \in DeleteCalls :
          LET f == del'[d].f
          IN  (del'[d] # del[d] /\ Siblings(files, f) # {})
              => /\ rmLog' = rmLog
                 /\ pending' = pending
                 /\ objects' = objects
                 /\ files' \in {files, files \ {f}}
                 /\ \A s \in Siblings(files, f) : FindById(files', s.id) = {s}]_vars

\* C4, its case: one of two records that share existing objects has been
\* deleted, the sibling is there and no removal has been started
C4_Witness ==
    \E d \in DeleteCalls :
        LET f == del[d].f
        IN  /\ del[d].pc = "done" /\ del[d].err = "nil"
            /\ f \notin files
            /\ \E s \in Siblings(files, f) : GetFile(s.id) = {s}
            /\ rmLog = {}
            /\ HasObject(s3RegionOrder[1], f.bucket, f.hash)
            /\ HasObject(s3RegionOrder[1], f.bucket, ThumbnailKey(f.hash))

\* C5: no step of the garbage collector (cleanupFiles) takes a record out of
\* the Metadata Store whose claimed flag is true at that moment, in any
\* interleaving of the sweep with Ingests and with the updates that claim.
C5_ClaimedNeverCollected ==
    [][gc' # gc => \A r \in files : r.claimed => r \in files']_vars

\* the age a record had when the sweep ran Find
AgeAtSweep(r) == gc.startNow - r.uploadedAt

\* C6: after a sweep of cleanupFiles that has returned without an error of the
\* Metadata Store, every record that was unclaimed and more than 1800 seconds
\* old when the sweep started is gone from the Metadata Store, and the sweep
\* has deleted nothing else: every record it has deleted was in the store,
\* unclaimed and more than 1800 seconds old when it started.
C6_SweepDeletesExactlyExpired ==
    (gc.pc = "done" /\ gc.err = "nil" /\ gc.sweeps > 0) =>
        /\ \A r \in gc.startFiles :
              (~r.claimed /\ AgeAtSweep(r) > TTL) =>
                  /\ r.id \in gc.deleted
                  /\ ~\E x \in files : x.id = r.id
        /\ \A r \in gc.startFiles :
              AgeAtSweep(r) <= TTL => r.id \notin gc.deleted
        /\ \A id \in gc.deleted :
              \E r \in gc.startFiles :
                  r.id = id /\ ~r.claimed /\ AgeAtSweep(r) > TTL

\* C6, its case: a sweep has finished that found a record 1801 seconds old,
\* which it has deleted, and a record exactly 1800 seconds old, which is there
C6_Witness ==
    /\ gc.pc = "done" /\ gc.err = "nil" /\ gc.sweeps > 0
    /\ \E r \in gc.startFiles :
          /\ ~r.claimed /\ AgeAtSweep(r) = TTL + 1
          /\ r.id \in gc.deleted /\ GetFile(r.id) = {}
    /\ \E r \in gc.startFiles :
          ~r.claimed /\ AgeAtSweep(r) = TTL /\ GetFile(r.id) = {r}

\* an upload that `file --mime-type` reports as no image
NotAnImage(bytes) == MimeType(bytes) \in {"video/mp4", "application/pdf"}

\* Ingest call c has begun, of content that is no image, into the icons, emojis
\* or stickers bucket
NonImageAsset(c) ==
    /\ ing[c].pc # "idle"
    /\ ing[c].bucket \in {"icons", "emojis", "stickers"}
    /\ NotAnImage(ing[c].upload)

\* the FPutObject calls Ingest call c has made
PutsBy(c) == {e \in putLog : e.op = "ingest" /\ e.by = c}

\* C7 as the spec states it, the failures of the file system, the codec
\* programs and Mongo apart: an Ingest of content that is no image into icons,
\* emojis or stickers always fails with Unsupported.
C7_AlwaysUnsupported ==
    \A c \in IngestCalls :
        (NonImageAsset(c) /\ ing[c].pc = "done") =>
            ing[c].res.err \in {"ErrUnsupportedFile"} \cup TransientErrors

\* C7: an Ingest of content that is no image into icons, emojis or stickers
\* never writes an object and never inserts a record, and it fails: with
\* Blocked when the hash is in the block-list, with the error of a failed step
\* that precedes the test of the MIME type, and with Unsupported otherwise.
C7_NonImageAssetRejected ==
    \A c \in IngestCalls :
        NonImageAsset(c) =>
            /\ PutsBy(c) = {}
            /\ ~Inserted(c)
            /\ ing[c].up = "none" /\ ing[c].th = "none"
            /\ ing[c].pc \in {"hashed", "done"}
            /\ ing[c].pc = "done" =>
                  /\ ing[c].res.nil
                  /\ ing[c].res.err \in
                        {"ErrUnsupportedFile", "ErrFileBlocked", "ErrIO", "ErrDb",
                         "ErrCodec"}
                  /\ ing[c].res.err = "ErrFileBlocked" => ing[c].hashHex \in blocked
                  /\ ing[c].hashHex \notin blocked =>
                        ing[c].res.err \in {"ErrUnsupportedFile", "ErrIO", "ErrDb",
                                            "ErrCodec"}

\* C7, its case: a video has been refused with Unsupported in an asset bucket
\* while objects and records of other uploads exist
C7_Witness ==
    \E c \in IngestCalls :
        /\ NonImageAsset(c)
        /\ ing[c].upload = "mp4"
        /\ ing[c].pc = "done"
        /\ ing[c].res.err = "ErrUnsupportedFile"
        /\ PutsBy(c) = {}
        /\ files # {} /\ objects # {}

\* C8: an Ingest whose digest is in the block-list when getBlockStatus looks is
\* over with that step: it returns Blocked (or the error of the block-list
\* lookup itself) and no File, and the Metadata Store and the Object Store are
\* as they were, also when a record of the same (hash, bucket) exists: the
\* existing record is not looked up.
C8_BlockedBeforeDedup ==
    [][\A c \in IngestCalls :
          (/\ ing[c].pc = "idle"
           /\ ing'[c].pc # "idle"
           /\ ing'[c].hashHex \in blocked)
          => /\ ing'[c].pc = "done"
             /\ ing'[c].res.nil
             /\ ing'[c].res.err \in {"ErrFileBlocked", "ErrDb"}
             /\ files' = files
             /\ objects' = objects
             /\ putLog' = putLog]_vars

\* C8, its case: content a record of the same bucket already has was ingested
\* again after its hash had been blocked, and was refused with Blocked
C8_Witness ==
    \E c \in IngestCalls :
        /\ ing[c].pc = "done"
        /\ ing[c].res.err = "ErrFileBlocked"
        /\ ing[c].hashHex \in blocked
        /\ Matching(files, ing[c].hashHex, ing[c].bucket) # {}
        /\ PutsBy(c) = {}
        /\ ~Inserted(c)

\* a generation of the thumbnail of (hashHex, bucket) has completed: the
\* GenerateThumbnail of a download, or of an Ingest, has run its UpdateMany
Generated(hashHex, bucket) ==
    \/ \E q \in FetchCalls :
          fet[q].generated /\ fet[q].f.hash = hashHex /\ fet[q].f.bucket = bucket
    \/ \E c \in IngestCalls :
          /\ ing[c].th = "done" /\ ing[c].bucket = "attachments"
          /\ ing[c].hashHex = hashHex /\ ing[c].bucket = bucket

\* C9: once a generation of the thumbnail of a (hash, bucket) has completed,
\* all the records of that (hash, bucket) carry the same thumbnail MIME, in
\* every state, whatever the interleaving of lazy generations and Ingests.
C9_SameThumbnailMime ==
    \A r1, r2 \in files :
        (/\ r1.hash = r2.hash
         /\ r1.bucket = r2.bucket
         /\ Generated(r1.hash, r1.bucket))
        => r1.thumbnailMime = r2.thumbnailMime

\* C10: a record of an Ingest is in the Metadata Store, or about to be
\* inserted, only when every goroutine the Ingest has started (the upload, the
\* thumbnail generation, the probe of the converted asset) has finished.
C10_InsertAfterJoin ==
    \A c \in IngestCalls :
        (ing[c].pc \in {"insert", "inserted"} \/ Inserted(c)) =>
            /\ ing[c].up \notin {"run"}
            /\ ing[c].th \notin {"run", "uploaded"}

\* C10, its case: the record of an attachment with a thumbnail and the record
\* of an icon, each of an Ingest whose two goroutines have finished, are in the
\* store
C10_Witness ==
    \E c \in IngestCalls :
        /\ Inserted(c)
        /\ ing[c].up = "done"
        /\ ing[c].th = "done"
        /\ ing[c].bucket = "attachments"
        /\ \E o \in IngestCalls :
              Inserted(o) /\ ing[o].bucket = "icons" /\ ing[o].th = "done"

\* the operations that work in the scratch directory INGEST_DIR/<id> and have
\* not returned: the Ingest that was handed the identifier, and the
\* GenerateThumbnail calls of downloads of the record with that identifier
ScratchUsers(id) ==
    {<<"ingest", c>> : c \in {a \in IngestCalls :
                                a = id /\ ing[a].pc \notin {"idle", "done"}}}
    \cup
    {<<"fetch", q>> : q \in {e \in FetchCalls :
                               /\ fet[e].f.id = id
                               /\ fet[e].pc \in {"download", "make", "update"}}}

\* C11: every scratch directory that exists is the directory of exactly one
\* operation that has not returned: no two operations (an Ingest, a lazy
\* thumbnail generation) work in the same directory at a time, and no
\* directory outlives its operation.
C11_ScratchExclusive ==
    \A d \in dirs : Cardinality(ScratchUsers(d.id)) = 1

Smaller(a, b) == IF a <= b THEN a ELSE b
Larger(a, b) == IF a >= b THEN a ELSE b

\* the size cap of an asset bucket
Cap(bucket) ==
    CASE bucket = "icons" -> IconSize
      [] bucket = "emojis" -> EmojiSize
      [] bucket = "stickers" -> StickerSize

\* Ingest call c has converted an image for icons, emojis or stickers
Converted(c) ==
    /\ ing[c].bucket \in {"icons", "emojis", "stickers"}
    /\ ing[c].up # "none"

\* C12: the bound N of the conversion (magick -resize NxN) of an image ingested
\* into icons, emojis or stickers is min(cap, min(width, height)) of the
\* source, with cap 256 for icons, 128 for emojis and 384 for stickers.
C12_ResizeBoundIsMin ==
    \A c \in IngestCalls :
        Converted(c) =>
            ing[c].desiredSize =
                Smaller(Cap(ing[c].bucket),
                        Smaller(Width(ing[c].orig), Height(ing[c].orig)))

\* the thumbnail `made` of record f from the picture bytes keeps to the limit
RightSize(made, f, bytes) ==
    /\ made.desiredSize = Smaller(480, Larger(f.width, f.height))
    /\ Larger(made.width, made.height) <= 480
    /\ made.width <= Width(bytes) /\ made.height <= Height(bytes)
    /\ Larger(Width(bytes), Height(bytes)) <= 480 =>
          made.width = Width(bytes) /\ made.height = Height(bytes)

\* C13: for every thumbnail generation, at Ingest or at a download, the bound
\* requested of the codec is min(480, max(width, height)) of the record; the
\* thumbnail made has no axis longer than 480, and a source with no axis longer
\* than 480 keeps its size.
C13_ThumbnailBound ==
    /\ \A c \in IngestCalls :
          ing[c].made # NoThumbnail => RightSize(ing[c].made, ing[c].f, ing[c].orig)
    /\ \A q \in FetchCalls :
          fet[q].made # NoThumbnail =>
              RightSize(fet[q].made, fet[q].f, Content(fet[q].f.hash))

\* C13, its case: an Ingest has made the thumbnail of a 600x480 picture, 480x384,
\* and a download has made the thumbnail of a picture with no axis above 480
C13_Witness ==
    /\ \E c \in IngestCalls :
          /\ ing[c].orig = "png.600x480"
          /\ ing[c].made = Thumbnail(480, 480, 384)
    /\ \E q \in FetchCalls :
          /\ fet[q].generated
          /\ fet[q].made.desiredSize \in 1..479
          /\ fet[q].made.width = fet[q].f.width
          /\ fet[q].made.height = fet[q].f.height

\* the MIME type the spec gives an asset with this number of frames
AssetMime(frames) == IF frames = 1 THEN "image/webp" ELSE "image/gif"

\* C14: an Ingest of new image content into icons, emojis or stickers that has
\* returned a File has returned one with MIME image/webp when the source has
\* one frame and image/gif when it has more, and it has uploaded the canonical
\* object, which is in the primary region with that content type.
C14_AssetMimeByFrames ==
    \A c \in IngestCalls :
        (Converted(c) /\ ing[c].pc = "done" /\ ing[c].res.err = "nil") =>
            /\ ing[c].res.file.mime = AssetMime(Frames(ing[c].upload))
            /\ CanonicalPutsBy(c) # {}
            /\ Object(s3RegionOrder[1], ing[c].bucket, ing[c].res.file.hash,
                      AssetMime(Frames(ing[c].upload))) \in objects

\* record f has the derived attributes of record found
SameContent(f, found) ==
    /\ f.hash = found.hash
    /\ f.bucket = found.bucket
    /\ f.mime = found.mime
    /\ f.width = found.width
    /\ f.height = found.height
    /\ f.size = found.size
    /\ f.thumbnailMime = found.thumbnailMime

\* C15: an Ingest that finds a record of its (hash, bucket) goes on to InsertOne
\* with a record that has the identifier handed to this call, which no record
\* of the store has, the uploader of this call and the time of this call, and
\* the hash, bucket, MIME, width, height, size and thumbnail MIME of a record
\* found; and InsertOne inserts that record as it is.
C15_DedupCopiesRecord ==
    [][\A c \in IngestCalls :
          /\ (ing[c].pc = "hashed" /\ ing'[c].pc = "insert") =>
                /\ ing'[c].f.id = c
                /\ \A r \in files : r.id # c
                /\ ing'[c].f.uploadedBy = ing[c].uploader
                /\ ing'[c].f.uploadedAt = now
                /\ \E found \in Matching(files, ing[c].hashHex, ing[c].bucket) :
                      SameContent(ing'[c].f, found)
          /\ (ing[c].pc = "insert" /\ ing'[c].pc = "inserted") =>
                files' = files \cup {ing[c].f}]_vars

\* C15, its case: the second Ingest of an image attachment, by another
\* uploader and at a later time, has returned the copy of the first record,
\* thumbnail MIME, dimensions and size included
C15_Witness ==
    \E a, c \in IngestCalls :
        /\ a # c
        /\ ing[a].pc = "done" /\ ing[a].res.err = "nil" /\ ing[a].up = "done"
        /\ ing[c].pc = "done" /\ ing[c].res.err = "nil" /\ ing[c].up = "none"
        /\ ing[c].bucket = "attachments" /\ ing[c].upload = "png"
        /\ SameContent(ing[c].res.file, ing[a].res.file)
        /\ ing[c].res.file.thumbnailMime = "image/webp"
        /\ ing[c].res.file.size > 0 /\ ing[c].res.file.width > 0
        /\ ing[c].res.file.id # ing[a].res.file.id
        /\ ing[c].res.file.uploadedBy # ing[a].res.file.uploadedBy
        /\ ing[c].res.file.uploadedAt > ing[a].res.file.uploadedAt
        /\ {ing[a].res.file, ing[c].res.file} \subseteq files

\* C16: a download that starts when the store has no record of the requested
\* identifier with a nonzero upload time, or has one of another bucket than
\* the requested one, answers NotFound at once and has opened no object; an
\* answer is final, so it opens none afterwards either.
C16_NotFoundReadsNothing ==
    [][\A q \in FetchCalls :
          /\ (fet[q].pc = "idle" /\ fet'[q].pc # "idle") =>
                ((\A r \in files : (r.id = fet'[q].id /\ r.uploadedAt # 0) =>
                                      r.bucket # fet'[q].bucket) =>
                    /\ fet'[q].pc = "done"
                    /\ fet'[q].res.status = "NotFound"
                    /\ fet'[q].read = {})
          /\ fet[q].pc = "done" => fet'[q] = fet[q]]_vars

\* C16, its cases: one download has named an identifier no record has, another
\* the identifier of a record of the other bucket, whose object is stored;
\* both are answered
C16_Witness ==
    \E p, q \in FetchCalls :
        /\ fet[p].pc = "done" /\ fet[p].res.status = "NotFound"
        /\ \A r \in files : r.id # fet[p].id
        /\ fet[q].pc = "done" /\ fet[q].res.status = "NotFound"
        /\ \E r \in files :
              /\ r.id = fet[q].id /\ r.uploadedAt # 0 /\ r.bucket # fet[q].bucket
              /\ HasObject(s3RegionOrder[1], r.bucket, r.hash)

\* C17: every object the store holds is in the first region of the configured
\* order, and every PUT of the history went to that region; a PUT of an Ingest
\* went to the bucket of its record, at the hash of its content once its
\* upload has run, or at that hash followed by "_thumbnail" once it has made a
\* thumbnail; a PUT of a download went to the bucket of the record it serves,
\* at the hash followed by "_thumbnail".  Every finished upload and every
\* thumbnail made is in the history.
C17_WritesGoToPrimary ==
    /\ \A o \in objects : o.region = s3RegionOrder[1]
    /\ \A e \in putLog :
          /\ e.region = s3RegionOrder[1]
          /\ e.op = "ingest" =>
                /\ e.bucket = ing[e.by].f.bucket
                /\ \/ e.key = ing[e.by].f.hash
                   \/ /\ e.key = ing[e.by].f.hash \o "_thumbnail"
                      /\ ing[e.by].made # NoThumbnail
          /\ e.op = "fetch" =>
                /\ e.bucket = fet[e.by].f.bucket
                /\ e.key = fet[e.by].f.hash \o "_thumbnail"
                /\ fet[e.by].made # NoThumbnail
    /\ \A c \in IngestCalls :
          /\ ing[c].up = "done" =>
                \E e \in putLog : /\ e.op = "ingest" /\ e.by = c
                                  /\ e.key = ing[c].f.hash
          /\ ing[c].made # NoThumbnail =>
                \E e \in putLog : /\ e.op = "ingest" /\ e.by = c
                                  /\ e.key = ing[c].f.hash \o "_thumbnail"
    /\ \A q \in FetchCalls :
          fet[q].made # NoThumbnail =>
              \E e \in putLog : e.op = "fetch" /\ e.by = q

\* C17, its cases: an Ingest has uploaded a canonical object into icons or
\* into attachments, an Ingest has uploaded a thumbnail, and a download has
\* uploaded the thumbnail of a record that had none
C17_Witness ==
    /\ \E e \in putLog : e.op = "ingest" /\ e.key = ing[e.by].f.hash
    /\ \E e \in putLog : e.op = "ingest" /\ e.key # ing[e.by].f.hash
    /\ \E e \in putLog : e.op = "fetch" /\ fet[e.by].res.status = "OK"
    /\ \E o \in objects : o.bucket = "attachments" /\ o.region = s3RegionOrder[1]

\* C18: when a removal started by a Delete has run, failed or not, every other
\* removal that was waiting to run still is, in whichever region: the one that
\* ran is not among them and no new attempt has been started for it; the
\* Delete that started it has returned nil and its result stays as it was.
\* A removal that has failed leaves its object in place.
C18_RemovalsIndependent ==
    [][\A t \in pending :
          t \notin pending' =>
              /\ pending' = pending \ {t}
              /\ rmLog' = rmLog
              /\ del' = del
              /\ \E d \in DeleteCalls :
                    /\ del[d].f.id = t.by
                    /\ del[d].pc = "done"
                    /\ del[d].err = "nil"
              /\ \/ objects' = objects
                 \/ objects' = {o \in objects : ~(/\ o.region = t.region
                                                  /\ o.bucket = t.bucket
                                                  /\ o.key = t.key)}]_vars

\* C18, its case: of the removals of a Delete that returned nil, the one of the
\* canonical object in the primary region has failed (the object, uploaded
\* once, is still there), the one of the thumbnail in the same region has
\* succeeded after it, and those of the other region have run as well
C18_Witness ==
    \E d \in DeleteCalls :
        LET f == del[d].f
            primary == s3RegionOrder[1]
        IN  /\ del[d].pc = "done" /\ del[d].err = "nil"
            /\ f.thumbnailMime # ""
            /\ \A region \in s3Clients, key \in {f.hash, ThumbnailKey(f.hash)} :
                  /\ Removal(f, region, key) \in rmLog
                  /\ Removal(f, region, key) \notin pending
            /\ HasObject(primary, f.bucket, f.hash)
            /\ Cardinality(Puts(primary, f.bucket, f.hash)) = 1
            /\ Puts(primary, f.bucket, ThumbnailKey(f.hash)) # {}
            /\ ~HasObject(primary, f.bucket, ThumbnailKey(f.hash))

\* C19: no step takes the canonical object of a (hash, bucket) out of the
\* primary region while a record of that (hash, bucket) is in the Metadata
\* Store, whatever Ingest, Delete and the removals a Delete has started do in
\* between.
C19_ReferencedObjectStays ==
    [][\A r \in files \cap files' :
          (\E o \in objects : /\ o.region = s3RegionOrder[1]
                              /\ o.bucket = r.bucket /\ o.key = r.hash)
          => (\E o \in objects' : /\ o.region = s3RegionOrder[1]
                                  /\ o.bucket = r.bucket /\ o.key = r.hash)]_vars

\* C20: every record that InsertOne of an Ingest adds to the Metadata Store,
\* of new content or a copy of an existing record, has claimed = FALSE when it
\* is added.
C20_InsertedUnclaimed ==
    [][\A r \in files' :
          (\A old \in files : old.id # r.id) => ~r.claimed]_vars

\* the subtasks of Ingest call c that have been started and have not finished
InFlight(c) ==
    (IF ing[c].up = "run" THEN {"upload"} ELSE {})
        \cup (IF ing[c].th \in {"run", "uploaded"} THEN {"derive"} ELSE {})

\* C21: an Ingest that has returned has no subtask in flight, and the scratch
\* directory of an Ingest that has started is there for as long as one of its
\* subtasks is in flight.
C21_ReturnsAfterSubtasks ==
    \A c \in IngestCalls :
        /\ ing[c].pc = "done" => InFlight(c) = {}
        /\ InFlight(c) # {} => DirExists(c)

\* download q asks for the thumbnail of an image or video attachment
ThumbnailFetch(q) ==
    /\ fet[q].thumbnail
    /\ fet[q].f.bucket = "attachments"
    /\ fet[q].f.mime \in {"image/png", "image/gif", "image/jpeg", "image/webp",
                         "video/mp4"}

\* the PUTs of download q
PutsOf(log, q) == {e \in log : e.op = "fetch" /\ e.by = q}

\* C22: a download of the thumbnail of an image or video attachment whose
\* record had no thumbnail MIME when the download read it has, when it answers
\* OK, generated the thumbnail: the object hash_thumbnail is in the primary
\* region, every stored record of the (hash, bucket) has a thumbnail MIME, and
\* the object sent is hash_thumbnail.  A download that reads a record with a
\* thumbnail MIME starts no generation, and no step of it writes an object.
C22_LazyThumbnail ==
    [][\A q \in FetchCalls :
          /\ (/\ fet[q].pc # "done"
              /\ fet'[q].pc = "done"
              /\ fet'[q].res.status = "OK"
              /\ ThumbnailFetch(q)
              /\ fet'[q].made # NoThumbnail) =>
                /\ \E o \in objects' :
                      /\ o.region = s3RegionOrder[1]
                      /\ o.bucket = fet[q].f.bucket
                      /\ o.key = fet[q].f.hash \o "_thumbnail"
                /\ \A r \in files' :
                      (r.hash = fet[q].f.hash /\ r.bucket = fet[q].f.bucket)
                          => r.thumbnailMime # ""
                /\ fet'[q].res.key = fet[q].f.hash \o "_thumbnail"
                /\ fet'[q].read = {fet[q].f.hash \o "_thumbnail"}
                      \cup (fet[q].read \cap {fet[q].f.hash})
          /\ (/\ fet[q].pc = "idle"
              /\ fet'[q].pc # "idle"
              /\ fet'[q].f.thumbnailMime # "") => fet'[q].pc \in {"get", "done"}
          /\ (fet[q].pc = "get" /\ fet[q].made = NoThumbnail) =>
                /\ fet'[q].made = NoThumbnail
                /\ PutsOf(putLog', q) = {}
                /\ fet'[q] # fet[q] => objects' = objects /\ files' = files]_vars

\* download q is inside the lazy GenerateThumbnail
Generating(q) == fet[q].pc \in {"stat", "mkdir", "download", "make", "update"}

\* the step download q is at can succeed: os.Mkdir finds no directory, the
\* download has its directory, magick or ffmpeg has the file "original"
CanSucceed(q) ==
    /\ fet[q].pc = "mkdir" => ~DirExists(fet[q].f.id)
    /\ fet[q].pc = "download" => DirExists(fet[q].f.id)
    /\ fet[q].pc = "make" => HasOriginal(fet[q].f.id)

\* C23: while two downloads generate the thumbnail of the same (hash, bucket)
\* at the same time, of one record or of two, and no Ingest is running,
\* neither stands in the way of the other: each can succeed at the step it is
\* at; and once both have generated, the store holds one thumbnail object of
\* the (hash, bucket) and every record of it has the thumbnail MIME of both.
C23_OverlappingGenerations ==
    \A p, q \in FetchCalls :
        (/\ p # q
         /\ fet[p].f.hash = fet[q].f.hash
         /\ fet[p].f.bucket = fet[q].f.bucket
         /\ \A c \in IngestCalls : ing[c].pc \in {"idle", "done"}) =>
            /\ (Generating(p) /\ Generating(q)) => CanSucceed(p) /\ CanSucceed(q)
            /\ (fet[p].generated /\ fet[q].generated) =>
                  /\ Cardinality({o \in objects :
                        /\ o.bucket = fet[p].f.bucket
                        /\ o.key = fet[p].f.hash \o "_thumbnail"}) = 1
                  /\ \A r \in files :
                        (r.hash = fet[p].f.hash /\ r.bucket = fet[p].f.bucket) =>
                            /\ r.thumbnailMime = fet[p].f.thumbnailMime
                            /\ r.thumbnailMime = fet[q].f.thumbnailMime

\* Ingest call c has returned a File of content no record had
IngestedNew(c) ==
    /\ ing[c].pc = "done" /\ ing[c].res.err = "nil" /\ ~ing[c].res.nil
    /\ ~ing[c].existing

\* the policy of the bucket and MIME of record f includes a thumbnail
HasThumbnailPolicy(f) ==
    /\ f.bucket = "attachments"
    /\ f.mime \in {"image/png", "image/gif", "image/jpeg", "image/webp",
                  "video/mp4"}

\* C24: an Ingest of new content that has returned a File has written a
\* thumbnail object and returned a thumbnail MIME exactly when the bucket is
\* attachments and the MIME is image/* or video/*; otherwise it has written one
\* object, the canonical one, and the thumbnail MIME is empty.  In both cases
\* the canonical object has been written.
C24_ThumbnailByPolicy ==
    \A c \in IngestCalls :
        IngestedNew(c) =>
            LET f == ing[c].res.file
                thumbs == {e \in PutsBy(c) : e.key = f.hash \o "_thumbnail"}
            IN  /\ \E e \in PutsBy(c) : e.key = f.hash
                /\ HasThumbnailPolicy(f) =>
                      thumbs # {} /\ f.thumbnailMime # ""
                /\ ~HasThumbnailPolicy(f) =>
                      /\ thumbs = {}
                      /\ Cardinality(PutsBy(c)) = 1
                      /\ f.thumbnailMime = ""

\* C25: a download that has answered OK has sent the thumbnail MIME of the
\* record, which is not empty, if the object it has read is hash_thumbnail, and
\* the MIME of the record if the object it has read is the canonical one.
C25_ContentTypeOfObject ==
    \A q \in FetchCalls :
        (fet[q].pc = "done" /\ fet[q].res.status = "OK") =>
            LET f == fet[q].f
            IN  /\ fet[q].res.key \in {f.hash, f.hash \o "_thumbnail"}
                /\ fet[q].res.key = f.hash \o "_thumbnail" =>
                      fet[q].res.ctype = f.thumbnailMime /\ f.thumbnailMime # ""
                /\ fet[q].res.key = f.hash => fet[q].res.ctype = f.mime

\* C26: two Ingest calls of the same bytes into the same bucket that have both
\* returned a File and whose lookups have both found no record (each has
\* looked before the other has inserted) have made one PUT of the canonical
\* object between them.
C26_OverlappingIngestsOneBlob ==
    \A a, b \in IngestCalls :
        (/\ a # b
         /\ IngestedNew(a) /\ IngestedNew(b)
         /\ ing[a].bucket = ing[b].bucket
         /\ ing[a].hashHex = ing[b].hashHex) =>
            Cardinality(Puts(s3RegionOrder[1], ing[a].bucket, ing[a].hashHex)) = 1

\* the identifiers of the records of collection coll
Ids(coll) == {r.id : r \in coll}

\* C27: the step at which a Delete of the sweep returns an error ends the
\* sweep with that error and deletes nothing and starts no removal: the rows
\* the sweep has deleted before are gone, the expired records it has fetched
\* and not reached are all still stored, no removal has been started for them
\* and none for the record whose Delete failed, although its row may be gone.
\* A sweep that has an error is over: it is at its end in every state, and
\* while it is, no step deletes a row or starts a removal.
C27_SweepStopsAtError ==
    [][/\ (gc.err = "nil" /\ gc'.err # "nil" /\ gc.pc \in {"loop", "check"}) =>
            /\ gc'.pc = "done"
            /\ files' = files /\ rmLog' = rmLog /\ pending' = pending
            /\ Ids(files') \cap gc'.deleted = {}
            /\ \A r \in gc'.files :
                  r.id \notin gc'.deleted =>
                      /\ r.id \in Ids(files')
                      /\ \A t \in rmLog' : t.by # r.id
            /\ \A t \in rmLog' : t.by # gc'.file.id
       /\ gc'.err # "nil" => gc'.pc = "done"
       /\ (gc.err # "nil" /\ gc'.sweeps = gc.sweeps) =>
            /\ Ids(files) \subseteq Ids(files')
            /\ rmLog' = rmLog]_vars

\* C27, its case: the sweep has fetched two expired records; the Delete of the
\* first has removed its row and has failed at isFileReferenced; the sweep is
\* over with the error, no removal has been started, the second record is
\* still stored and so is the object
C27_Witness ==
    /\ gc.pc = "done" /\ gc.err # "nil"
    /\ Cardinality(gc.files) = 2
    /\ gc.deleted = {gc.file.id}
    /\ gc.file.id \notin Ids(files)
    /\ \E r \in gc.files : r.id # gc.file.id /\ r.id \in Ids(files)
    /\ rmLog = {}
    /\ HasObject(s3RegionOrder[1], gc.file.bucket, gc.file.hash)

===========================================================================
